---- MODULE Spec2Model ----
(***************************************************************************)
(* hardlink_cleaner.py: the hardlink-aware scans and the deletion          *)
(* policies (complete-object deletion "variant A", symlink removal,        *)
(* global purge, selection-driven purge), over a small filesystem of       *)
(* directories, devices and hardlinked paths.                              *)
(***************************************************************************)
EXTENDS Integers, Sequences, FiniteSets, TLC

\* ------------------------------------------------------------------ bounds
\* Device ids are 1..MaxDev, inode numbers on each device 1..MaxIno.
MaxDev == 2
MaxIno == 2
\* Hardlinks another process may create or remove during one run (SpecRace).
MaxMut == 2
\* dir_size is called with depth 0..MaxDepth.
MaxDepth == 2
\* file_disk_usage by itself: st_size in 0..MaxSize, st_blocks in 0..MaxBlocks.
MaxSize == 8
MaxBlocks == 8
\* The browser shows 0..MaxVisible lines of the listing, and the operator
\* presses at most MaxKeys keys.
MaxVisible == 2
MaxKeys == 5

Devs == 1..MaxDev
Inos == 1..MaxIno
Keys == Devs \X Inos

\* The directory tree and the path names a file may have, in the order a
\* listing returns them (paths are sequences of components; <<>> is "/").
DirSeq == << <<>>, <<"d">>, <<"d", "m">>, <<"d", "m", "s">>, <<"o">> >>
SlotSeq == << <<"d", "a">>, <<"d", "b">>, <<"d", "m", "c">>, <<"o", "x">> >>
Range(s) == {s[i] : i \in DOMAIN s}
Dirs == Range(DirSeq)
Slots == Range(SlotSeq)
TargetDir == <<"d">>

VARIABLES
  dev,             \* directory -> device id (st_dev of the directory)
  fs,              \* path -> what the directory entry is
  fs0,             \* fs when the operation started (for frame conditions)
  mutations,       \* hardlinks created/removed by another process so far
  lost,            \* directories that vanished or became unreadable since
                   \* the operation started
  op,              \* the operation that was called
  target_dir, xdev, dry_run, yes,   \* its arguments
  pc,              \* position in the operation
  root_dev,        \* st_dev of the walk's root
  stack,           \* os.walk: directories still to be yielded
  listed,          \* directories whose listing a walk has read (scandir)
  inode_to_paths,  \* variant A: dict inode key -> list of paths
  inode_stat,      \* dict inode key -> stat result (inode_to_stat, inode_stat)
  inodes,          \* purge: set of inode keys found under target_dir
  hits,            \* dict inode key -> paths to delete (deletable, hits)
  fs_root, cur,    \* detect_fs_root: result, and the loop's cur
  symlinks, total_size,             \* remove_symlinks
  depth, apparent,                  \* dir_size: its arguments
  q, size_map, seen_inodes,         \* dir_size: queue, sizes, inodes seen
  counted,         \* dir_size: the paths whose usage was added to a size
  selected,        \* interactive mode: dict path -> inode key from the TUI
  ans,             \* what the operator typed at the prompt
  todo,            \* unlink loop: paths still to be attempted
  attempted,       \* unlink loop: <<path, succeeded>> for every attempt made
  removed_paths, freed_bytes, total_paths, total_inodes,
  result,          \* the returned tuple
  st_arg, usage,   \* file_disk_usage: its argument and what it returned
  file,            \* the snapshot file (--save-scan, --load-scan)
  loaded,          \* what load_scan_results returned, or that it raised
  current_dir, current_idx,         \* tui_main: directory shown, cursor
  selected_items,  \* tui_main: the marked paths, files or directories
  selected_file_inodes,             \* tui_main: dict path -> inode key
  dir_cache,       \* tui_main: dict directory -> its listing
  last_key,        \* tui_main: the key getch returned last (a cursor key
                   \* is "move", whichever it was)
  keys,            \* tui_main: how many keys getch has returned
  before_mark      \* the selection as it was when a directory was marked

envv == << dev, fs, fs0, mutations, lost >>
argv == << op, target_dir, xdev, dry_run, yes, depth, apparent >>
walkv == << root_dev, stack, listed >>
scanv == << inode_to_paths, inode_stat, inodes, hits >>
rootv == << fs_root, cur >>
symv == << symlinks, total_size >>
sizev == << q, size_map, seen_inodes, counted >>
unlv == << ans, todo, attempted, removed_paths >>
totv == << freed_bytes, total_paths, total_inodes >>
fnv == << st_arg, usage >>
snapv == << file, loaded >>
tuiv == << current_dir, current_idx, selected_items, selected_file_inodes,
           dir_cache, last_key, keys, before_mark >>
vars == << envv, argv, pc, walkv, scanv, rootv, symv, sizev, selected, unlv,
           totv, result, fnv, snapv, tuiv >>

\* ------------------------------------------------------------ paths, dicts
\* os.path.dirname: the parent of "/" is "/".
Dirname(p) == IF p = <<>> THEN <<>> ELSE SubSeq(p, 1, Len(p) - 1)

\* p is d or lies below d.
IsUnder(p, d) == Len(p) >= Len(d) /\ SubSeq(p, 1, Len(d)) = d

\* A Python dict, as the sequence of its <<key, value>> items in insertion
\* order.
DictKeys(d) == {d[i][1] : i \in DOMAIN d}
DictGet(d, k) == LET i == CHOOSE j \in DOMAIN d : d[j][1] = k IN d[i][2]
DictPut(d, k, v) ==
  IF k \in DictKeys(d)
  THEN [i \in DOMAIN d |-> IF d[i][1] = k THEN <<k, v>> ELSE d[i]]
  ELSE Append(d, <<k, v>>)

RECURSIVE SumSeq(_)
SumSeq(s) == IF s = <<>> THEN 0 ELSE Head(s) + SumSeq(Tail(s))

RECURSIVE Flatten(_)
Flatten(ss) == IF ss = <<>> THEN <<>> ELSE Head(ss) \o Flatten(Tail(ss))

\* ------------------------------------------------------------- filesystem
NoEnt == [kind |-> "none", ino |-> 0]
SymLink == [kind |-> "lnk", ino |-> 0]
RegFile(i) == [kind |-> "reg", ino |-> i]
Entries == {NoEnt, SymLink} \cup {RegFile(i) : i \in Inos}

\* The inode a regular-file path references: (st_dev, st_ino).  A hardlink
\* never leaves its filesystem, so the device is the directory's.
KeyOf(f, p) == << dev[Dirname(p)], f[p].ino >>
PathsOf(f, key) == {p \in Slots : f[p].kind = "reg" /\ KeyOf(f, p) = key}

\* os.stat(path, follow_symlinks=False) of an existing entry.  Disk usage is
\* a fixed attribute of the inode (8 blocks per inode number), a directory
\* has one block, a symlink no blocks and the length of its target as size.
Lstat(f, p) ==
  IF p \in Dirs
  THEN [st_mode |-> "dir", st_dev |-> dev[p], st_ino |-> 0, st_nlink |-> 2,
        st_blocks |-> 1, st_size |-> 60]
  ELSE IF f[p].kind = "reg"
  THEN [st_mode |-> "reg", st_dev |-> dev[Dirname(p)], st_ino |-> f[p].ino,
        st_nlink |-> Cardinality(PathsOf(f, KeyOf(f, p))),
        st_blocks |-> 8 * f[p].ino, st_size |-> 4000 * f[p].ino]
  ELSE [st_mode |-> "lnk", st_dev |-> dev[Dirname(p)], st_ino |-> 0,
        st_nlink |-> 1, st_blocks |-> 0, st_size |-> 7]

\* Every filesystem is mounted once: the directories of one device form one
\* subtree (minus the filesystems mounted inside it).
MountTops(v) == {d \in Dirs : dev[d] = v /\ (d = <<>> \/ dev[Dirname(d)] # v)}
MountedOnce == \A v \in Devs : Cardinality(MountTops(v)) <= 1

\* blocks = getattr(st, "st_blocks", None); a metadata record without the
\* field has no block count.
file_disk_usage(st) ==
  IF "st_blocks" \in DOMAIN st /\ st.st_blocks > 0
  THEN st.st_blocks * 512
  ELSE st.st_size

\* os.walk(top, followlinks=False), top-down: the directory it yields next
\* has been listed (scandir) before the caller sees it; its subdirectories
\* and its non-directory entries:
WalkDirs(curdir) ==
  LET Sub(x) == x # <<>> /\ Dirname(x) = curdir IN SelectSeq(DirSeq, Sub)
WalkFiles(curdir) ==
  LET In(p) == Dirname(p) = curdir /\ fs[p].kind # "none"
  IN SelectSeq(SlotSeq, In)
\* the walk after the caller handled curdir, having emptied dirs or not
WalkOn(pruned) ==
  (IF pruned THEN <<>> ELSE WalkDirs(Head(stack))) \o Tail(stack)

\* sorted(paths)
Sorted(paths) == LET In(p) == p \in Range(paths) IN SelectSeq(SlotSeq, In)

\* ------------------------------------------------------------ the prompt
\* What the operator may type, as sequences of characters.
Answers == { <<"y">>, <<" ", "Y", "E", "S", " ">>,
             <<>>, <<"n">>, <<"y", "e">>, <<"y", " ", "e", "s">> }
LowerChar(c) ==
  CASE c = "Y" -> "y" [] c = "E" -> "e" [] c = "S" -> "s" [] c = "N" -> "n"
    [] OTHER -> c
Lower(s) == [i \in DOMAIN s |-> LowerChar(s[i])]
RECURSIVE LStrip(_)
LStrip(s) == IF s # <<>> /\ Head(s) = " " THEN LStrip(Tail(s)) ELSE s
RECURSIVE RStrip(_)
RStrip(s) ==
  IF s # <<>> /\ s[Len(s)] = " " THEN RStrip(SubSeq(s, 1, Len(s) - 1)) ELSE s
Strip(s) == RStrip(LStrip(s))
\* (faulty variant: anything that starts with y)
Affirmative_Prefix(a) ==
  Lower(Strip(a)) # <<>> /\ Head(Lower(Strip(a))) = "y"

\* ans = input(...).strip().lower(); ans in ("y", "yes")
Affirmative(a) == Lower(Strip(a)) \in { <<"y">>, <<"y", "e", "s">> }


\* ------------------------------------------------------- the walks' checks
\* if xdev and curdir_dev != root_dev: dirs[:] = []; continue
OtherFs(d) == xdev /\ dev[d] # root_dev

\* os.walk yields Head(stack), whose listing it has just read.
Yield == listed' = listed \cup {Head(stack)}

\* ------------------------------------------ variant A: the scan (132-177)
\* The files of the directory os.walk yielded: stat each, keep regular files.
RECURSIVE ScanFilesA(_, _, _)
ScanFilesA(files, paths, stats) ==
  IF files = <<>> THEN << paths, stats >>
  ELSE LET p == Head(files)
           st == Lstat(fs, p)
           key == << st.st_dev, st.st_ino >>
           old == IF key \in DictKeys(paths) THEN DictGet(paths, key) ELSE <<>>
       IN IF st.st_mode # "reg"
          THEN ScanFilesA(Tail(files), paths, stats)
          ELSE ScanFilesA(Tail(files), DictPut(paths, key, Append(old, p)),
                          DictPut(stats, key, st))

ScanStepA ==
  /\ pc = "scan_a" /\ stack # <<>>
  /\ Yield
  /\ LET curdir == Head(stack)
         r == ScanFilesA(WalkFiles(curdir), inode_to_paths, inode_stat)
     IN IF OtherFs(curdir)
        THEN /\ stack' = WalkOn(TRUE)
             /\ UNCHANGED << inode_to_paths, inode_stat >>
        ELSE /\ stack' = WalkOn(FALSE)
             /\ inode_to_paths' = r[1]
             /\ inode_stat' = r[2]
  /\ UNCHANGED << envv, argv, pc, root_dev, inodes, hits, rootv, symv, sizev,
                  selected, unlv, totv, result,
                  fnv, snapv, tuiv >>

\* (faulty variants of the test: links outside also pass; every inode passes)
Qualifies_Ge(st, paths) == st.st_nlink >= Len(paths)
Qualifies_Any(st, paths) == TRUE

\* if st.st_nlink == len(paths)
Qualifies(st, paths) == st.st_nlink = Len(paths)

\* deletable: the inodes all of whose links were found
Deletable(paths, stats) ==
  LET Ok(item) == Qualifies(DictGet(stats, item[1]), item[2])
      sel == SelectSeq(paths, Ok)
  IN [i \in DOMAIN sel |-> << sel[i][1], Sorted(sel[i][2]) >>]

\* (faulty variant: the usage added once for each path)
FreedBytes_PerPath(cands, stats) ==
  SumSeq([i \in DOMAIN cands |->
            Len(cands[i][2]) * file_disk_usage(DictGet(stats, cands[i][1]))])

\* freed_bytes += file_disk_usage(st), once for each key of the candidates
FreedBytes(cands, stats) ==
  SumSeq([i \in DOMAIN cands |->
            IF cands[i][1] \in DictKeys(stats)
            THEN file_disk_usage(DictGet(stats, cands[i][1])) ELSE 0])
TotalPaths(cands) == SumSeq([i \in DOMAIN cands |-> Len(cands[i][2])])
\* (faulty variant: only the first path of each inode)
AllPaths_First(cands) == [i \in DOMAIN cands |-> Head(cands[i][2])]

\* for paths in cands.values(): for p in paths
AllPaths(cands) == Flatten([i \in DOMAIN cands |-> cands[i][2]])

\* (faulty variant: the flag is not looked at)
DryRun_Ignored == FALSE

\* if dry_run: ...; return
DryRun == dry_run

\* The value a cancelled operation returns.
Cancelled ==
  CASE op = "symlinks" -> <<0, 0>>
    [] op = "interactive" -> <<0>>
    [] OTHER -> <<0, 0, 0>>

\* From the candidates to the dry-run return, the prompt or the unlink loop:
\* the shape delete_variant_a, purge_hardlink_groups_globally, remove_symlinks
\* and main share.
Decide(empty, report, paths) ==
  IF empty THEN pc' = "done" /\ result' = Cancelled /\ todo' = <<>>
  ELSE IF DryRun THEN pc' = "done" /\ result' = report /\ todo' = <<>>
  ELSE /\ pc' = IF yes THEN "unlink" ELSE "prompt"
       /\ todo' = paths
       /\ result' = result

\* delete_variant_a from the end of the scan to the prompt (186-223)
ReportA ==
  /\ pc = "scan_a" /\ stack = <<>>
  /\ LET deletable == Deletable(inode_to_paths, inode_stat)
         n == Len(deletable)
         np == TotalPaths(deletable)
         fb == FreedBytes(deletable, inode_stat)
     IN /\ hits' = deletable
        /\ total_inodes' = n
        /\ total_paths' = np
        /\ freed_bytes' = fb
        /\ Decide(n = 0, <<n, np, fb>>, AllPaths(deletable))
  /\ UNCHANGED << envv, argv, walkv, inode_to_paths, inode_stat, inodes,
                  rootv, symv, sizev, selected, ans, attempted,
                  removed_paths,
                  fnv, snapv, tuiv >>

\* ------------------------------------------------ confirmation and unlink
\* if not yes: ans = input(...); if ans not in ("y", "yes"): return zeros
Prompt ==
  /\ pc = "prompt"
  /\ \E a \in Answers :
       /\ ans' = a
       /\ IF Affirmative(a)
          THEN pc' = "unlink" /\ UNCHANGED << result, todo >>
          ELSE pc' = "done" /\ result' = Cancelled /\ todo' = <<>>
  /\ UNCHANGED << envv, argv, walkv, scanv, rootv, symv, sizev, selected,
                  attempted, removed_paths, totv,
                  fnv, snapv, tuiv >>

\* (faulty variant: the first failure ends the batch)
AfterFailure_Abort(rest) == <<>>

\* After a failed os.unlink(p) the except clause logs it and the loop goes
\* on with the remaining paths.
AfterFailure(rest) == rest

\* One iteration of the unlink loop: os.unlink(p) removes the entry, or
\* raises an OSError (the path is gone, or the kernel refuses).
UnlinkStep ==
  /\ pc = "unlink" /\ todo # <<>>
  /\ LET p == Head(todo) IN
       \/ /\ fs[p].kind # "none"
          /\ fs' = [fs EXCEPT ![p] = NoEnt]
          /\ removed_paths' = removed_paths + 1
          /\ attempted' = Append(attempted, <<p, TRUE>>)
          /\ todo' = Tail(todo)
       \/ /\ UNCHANGED << fs, removed_paths >>
          /\ attempted' = Append(attempted, <<p, FALSE>>)
          /\ todo' = AfterFailure(Tail(todo))
  /\ UNCHANGED << dev, fs0, mutations, lost, argv, pc, walkv, scanv, rootv, symv,
                  sizev, selected, ans, totv, result,
                  fnv, snapv, tuiv >>

\* The value returned after the unlink loop.
Returned ==
  CASE op = "variant_a" -> << total_inodes, removed_paths, freed_bytes >>
    [] op = "symlinks" -> << removed_paths, total_size >>
    [] op = "interactive" -> <<0>>
    [] OTHER -> << Len(hits), removed_paths, freed_bytes >>

Return ==
  /\ pc = "unlink" /\ todo = <<>>
  /\ pc' = "done"
  /\ result' = Returned
  /\ UNCHANGED << envv, argv, walkv, scanv, rootv, symv, sizev, selected,
                  unlv, totv,
                  fnv, snapv, tuiv >>

\* ------------------------------------------- global purge: collect (275-317)
RECURSIVE CollectFiles(_, _, _)
CollectFiles(files, set, stats) ==
  IF files = <<>> THEN << set, stats >>
  ELSE LET p == Head(files)
           st == Lstat(fs, p)
           key == << st.st_dev, st.st_ino >>
       IN IF st.st_mode # "reg"
          THEN CollectFiles(Tail(files), set, stats)
          ELSE CollectFiles(Tail(files), set \cup {key},
                            DictPut(stats, key, st))

CollectStep ==
  /\ pc = "collect" /\ stack # <<>>
  /\ Yield
  /\ LET curdir == Head(stack)
         r == CollectFiles(WalkFiles(curdir), inodes, inode_stat)
     IN IF OtherFs(curdir)
        THEN /\ stack' = WalkOn(TRUE)
             /\ UNCHANGED << inodes, inode_stat >>
        ELSE /\ stack' = WalkOn(FALSE)
             /\ inodes' = r[1]
             /\ inode_stat' = r[2]
  /\ UNCHANGED << envv, argv, pc, root_dev, inode_to_paths, hits, rootv, symv,
                  sizev, selected, unlv, totv, result,
                  fnv, snapv, tuiv >>

\* purge_hardlink_groups_globally, 385-391: nothing found, or on to
\* detect_fs_root(target_dir)
CollectDone ==
  /\ pc = "collect" /\ stack = <<>>
  /\ IF inodes = {}
     THEN pc' = "done" /\ result' = <<0, 0, 0>> /\ cur' = cur
     ELSE pc' = "fsroot" /\ result' = result /\ cur' = target_dir
  /\ UNCHANGED << envv, argv, walkv, scanv, fs_root, symv, sizev, selected,
                  unlv, totv,
                  fnv, snapv, tuiv >>

\* ------------------------------------------------ detect_fs_root (251-272)
\* (faulty variant: no test for having arrived at "/")
DetectBreak_NoTop(c) == dev[Dirname(c)] # dev[target_dir]

\* if parent_dev != target_dev or parent == cur: break
DetectBreak(c) ==
  LET parent == Dirname(c)
  IN dev[parent] # dev[target_dir] \/ parent = c

\* cur = parent; parent = os.path.dirname(cur)
DetectStep ==
  /\ pc = "fsroot"
  /\ ~DetectBreak(cur)
  /\ cur' = Dirname(cur)
  /\ UNCHANGED << envv, argv, pc, walkv, scanv, fs_root, symv, sizev,
                  selected, unlv, totv, result,
                  fnv, snapv, tuiv >>

\* return cur; the caller goes on: find_all_paths_for_inodes(fs_root, ...)
\* starts its walk (326-335), the interactive mode opens the browser.
DetectReturn ==
  /\ pc = "fsroot"
  /\ DetectBreak(cur)
  /\ fs_root' = cur
  /\ cur' = cur
  /\ CASE op = "purge" ->
            /\ pc' = "findall"
            /\ root_dev' = dev[cur]
            /\ stack' = << cur >>
            /\ result' = result
       [] op = "interactive" ->
            /\ pc' = "tui"
            /\ UNCHANGED << root_dev, stack, result >>
       [] OTHER ->
            /\ pc' = "done"
            /\ result' = cur
            /\ UNCHANGED << root_dev, stack >>
  /\ UNCHANGED << envv, argv, listed, scanv, symv, sizev, selected, unlv,
                  totv,
                  fnv, snapv, tuiv >>

\* -------------------------------------- find_all_paths_for_inodes (320-370)
\* The entries scandir(curdir) returns: subdirectories and files.
ScanEntries(curdir) == WalkDirs(curdir) \o WalkFiles(curdir)

\* (faulty variant: every regular file is a hit)
IsHit_Any(st) ==
  ~(xdev /\ st.st_dev # root_dev) /\ st.st_mode = "reg"

\* The entry is on the root's device (under xdev), a regular file, and
\* its key is in inodes.
IsHit(st) ==
  /\ ~(xdev /\ st.st_dev # root_dev)
  /\ st.st_mode = "reg"
  /\ << st.st_dev, st.st_ino >> \in inodes

RECURSIVE FindEntries(_, _)
FindEntries(entries, found) ==
  IF entries = <<>> THEN found
  ELSE LET p == Head(entries)
           st == Lstat(fs, p)
           key == << st.st_dev, st.st_ino >>
           old == IF key \in DictKeys(found) THEN DictGet(found, key) ELSE <<>>
       IN IF ~IsHit(st)
          THEN FindEntries(Tail(entries), found)
          ELSE FindEntries(Tail(entries), DictPut(found, key, Append(old, p)))

FindStep ==
  /\ pc = "findall" /\ stack # <<>>
  /\ Yield
  /\ LET curdir == Head(stack) IN
       IF OtherFs(curdir)
       THEN stack' = WalkOn(TRUE) /\ hits' = hits
       ELSE /\ stack' = WalkOn(FALSE)
            /\ hits' = FindEntries(ScanEntries(curdir), hits)
  /\ UNCHANGED << envv, argv, pc, root_dev, inode_to_paths, inode_stat,
                  inodes, rootv, symv, sizev, selected, unlv, totv, result,
                  fnv, snapv, tuiv >>

\* purge_hardlink_groups_globally from the hits to the prompt (396-427)
ReportPurge ==
  /\ pc = "findall" /\ stack = <<>> /\ op = "purge"
  /\ LET np == TotalPaths(hits)
         fb == FreedBytes(hits, inode_stat)
     IN /\ total_inodes' = Len(hits)
        /\ total_paths' = np
        /\ freed_bytes' = fb
        /\ Decide(hits = <<>>, << Len(hits), np, fb >>, AllPaths(hits))
  /\ UNCHANGED << envv, argv, walkv, scanv, rootv, symv, sizev, selected,
                  ans, attempted, removed_paths,
                  fnv, snapv, tuiv >>

\* ------------------------------------------------ remove_symlinks (455-527)
RECURSIVE SymEntries(_, _, _)
SymEntries(entries, links, size) ==
  IF entries = <<>> THEN << links, size >>
  ELSE LET p == Head(entries)
           st == Lstat(fs, p)
       IN IF st.st_mode = "lnk"
          THEN SymEntries(Tail(entries), Append(links, p), size + st.st_size)
          ELSE SymEntries(Tail(entries), links, size)

SymStep ==
  /\ pc = "scan_sym" /\ stack # <<>>
  /\ Yield
  /\ LET curdir == Head(stack)
         r == SymEntries(ScanEntries(curdir), symlinks, total_size)
     IN IF OtherFs(curdir)
        THEN stack' = WalkOn(TRUE) /\ UNCHANGED symv
        ELSE /\ stack' = WalkOn(FALSE)
             /\ symlinks' = r[1]
             /\ total_size' = r[2]
  /\ UNCHANGED << envv, argv, pc, root_dev, scanv, rootv, sizev, selected,
                  unlv, totv, result,
                  fnv, snapv, tuiv >>

\* remove_symlinks from the list of symlinks to the prompt (493-510)
ReportSym ==
  /\ pc = "scan_sym" /\ stack = <<>>
  /\ Decide(symlinks = <<>>, << Len(symlinks), total_size >>, symlinks)
  /\ UNCHANGED << envv, argv, walkv, scanv, rootv, symv, sizev, selected,
                  ans, attempted, removed_paths, totv,
                  fnv, snapv, tuiv >>

\* ------------------------------------------------------- dir_size (48-126)
\* file_disk_usage(st) if not apparent else st.st_size
SizeOf(st) == IF apparent THEN st.st_size ELSE file_disk_usage(st)

\* size_map[current] += n  (a defaultdict(int))
AddSize(sm, current, n) ==
  DictPut(sm, current,
          (IF current \in DictKeys(sm) THEN DictGet(sm, current) ELSE 0) + n)

\* (faulty variant: no inode is taken as counted before)
AlreadySeen_Never(key, seen) == FALSE

\* if key in seen_inodes: continue
AlreadySeen(key, seen) == key \in seen

\* The entries of one directory, at depth d below the root.
RECURSIVE SizeEntries(_, _, _, _)
SizeEntries(entries, current, d, acc) ==
  IF entries = <<>> THEN acc
  ELSE LET p == Head(entries)
           st == Lstat(fs, p)
           key == << st.st_dev, st.st_ino >>
           add == [acc EXCEPT !.sm = AddSize(acc.sm, current, SizeOf(st)),
                              !.cnt = acc.cnt \cup {p}]
           next ==
             IF xdev /\ st.st_dev # root_dev THEN acc
             ELSE IF st.st_mode = "lnk" THEN add
             ELSE IF st.st_mode = "dir"
             THEN IF d < depth
                  THEN [add EXCEPT !.q = Append(add.q, << p, d + 1 >>)]
                  ELSE add
             ELSE IF AlreadySeen(key, acc.seen) THEN acc
             ELSE [add EXCEPT !.seen = acc.seen \cup {key}]
       IN SizeEntries(Tail(entries), current, d, next)

DirSizeStep ==
  /\ pc = "dir_size" /\ q # <<>>
  /\ LET current == Head(q)[1]
         d == Head(q)[2]
         r == SizeEntries(ScanEntries(current), current, d,
                          [sm |-> size_map, seen |-> seen_inodes,
                           q |-> Tail(q), cnt |-> counted])
     IN /\ listed' = listed \cup {current}
        /\ size_map' = r.sm
        /\ seen_inodes' = r.seen
        /\ q' = r.q
        /\ counted' = r.cnt
  /\ UNCHANGED << envv, argv, pc, root_dev, stack, scanv, rootv, symv,
                  selected, unlv, totv, result,
                  fnv, snapv, tuiv >>

\* return list(size_map.items())
DirSizeReturn ==
  /\ pc = "dir_size" /\ q = <<>>
  /\ pc' = "done"
  /\ result' = size_map
  /\ UNCHANGED << envv, argv, walkv, scanv, rootv, symv, sizev, selected,
                  unlv, totv,
                  fnv, snapv, tuiv >>

\* ------------------------------- interactive mode and main (609-1017, 1082-)
\* The regular files the browser lists: scan_directory and
\* collect_files_from_directory skip another device's entries under xdev.
Selectable ==
  {p \in Slots : fs[p].kind = "reg" /\ ~(xdev /\ dev[Dirname(p)] # root_dev)}

\* selected_file_inodes, for a set of marked files
SelectionOf(S) ==
  LET In(p) == p \in S
      ps == SelectSeq(SlotSeq, In)
  IN [i \in DOMAIN ps |-> << ps[i], KeyOf(fs, ps[i]) >>]

\* for path, inode_key in selected_indices.items(): inode_stat (1000-1007)
RECURSIVE SelectedStat(_, _)
SelectedStat(sel, stats) ==
  IF sel = <<>> THEN stats
  ELSE LET p == Head(sel)[1]
           key == Head(sel)[2]
           st == Lstat(fs, p)
       IN IF st.st_mode = "reg" /\ key \notin DictKeys(stats)
          THEN SelectedStat(Tail(sel), DictPut(stats, key, st))
          ELSE SelectedStat(Tail(sel), stats)

\* The operator marks files and confirms with "d": the selection comes back,
\* its inodes are collected and the filesystem is searched for their paths.
TuiConfirm ==
  /\ pc = "tui"
  /\ \E S \in SUBSET Selectable :
       /\ S # {}
       /\ selected' = SelectionOf(S)
       /\ inodes' = {KeyOf(fs, p) : p \in S}
       /\ inode_stat' = SelectedStat(SelectionOf(S), <<>>)
  /\ pc' = "findall"
  /\ root_dev' = dev[fs_root]
  /\ stack' = << fs_root >>
  /\ UNCHANGED << envv, argv, listed, inode_to_paths, hits, rootv, symv,
                  sizev, unlv, totv, result,
                  fnv, snapv, tuiv >>

\* "q" or an interrupt: nothing is selected, main returns 0.
TuiQuit ==
  /\ pc = "tui"
  /\ pc' = "done"
  /\ result' = <<0>>
  /\ UNCHANGED << envv, argv, walkv, scanv, rootv, symv, sizev, selected,
                  unlv, totv,
                  fnv, snapv, tuiv >>

\* freed_bytes of main: over selected_inodes, where a stat is known
FreedOfSet(set, stats) ==
  SumSeq([i \in DOMAIN stats |->
            IF stats[i][1] \in set THEN file_disk_usage(stats[i][2]) ELSE 0])

\* main from the statistics to the prompt (1148-1178)
ReportMain ==
  /\ pc = "findall" /\ stack = <<>> /\ op = "interactive"
  /\ total_inodes' = Cardinality(inodes)
  /\ total_paths' = TotalPaths(hits)
  /\ freed_bytes' = FreedOfSet(inodes, inode_stat)
  /\ Decide(inodes = {}, <<0>>, AllPaths(hits))
  /\ UNCHANGED << envv, argv, walkv, scanv, rootv, symv, sizev, selected,
                  ans, attempted, removed_paths,
                  fnv, snapv, tuiv >>

\* ---------------------------------------------------------- specification
\* Metadata-only operations take no deletion flags.
Ops == {"variant_a", "purge", "symlinks", "interactive", "dir_size"}

StartPc(o) ==
  CASE o = "variant_a" -> "scan_a"
    [] o = "purge" -> "collect"
    [] o = "symlinks" -> "scan_sym"
    [] o = "dir_size" -> "dir_size"
    [] o = "file_disk_usage" -> "usage"
    [] o = "save_scan" -> "scanned"
    [] o = "load_scan" -> "load"
    [] OTHER -> "fsroot"

\* Device ids and inode numbers carry no meaning beyond identity: "/" is on
\* device 1, and devices (along DirSeq) and the inode numbers of one device
\* (along SlotSeq) are handed out in order.
DevsInOrder ==
  \A i \in DOMAIN DirSeq :
    dev[DirSeq[i]] = 1 \/ \E j \in 1..(i - 1) : dev[DirSeq[j]] = dev[DirSeq[i]] - 1
InosInOrder ==
  \A i \in DOMAIN SlotSeq :
    LET p == SlotSeq[i] IN
      fs[p].kind = "reg" /\ fs[p].ino > 1 =>
        \E j \in 1..(i - 1) :
          /\ fs[SlotSeq[j]].kind = "reg"
          /\ KeyOf(fs, SlotSeq[j]) = << dev[Dirname(p)], fs[p].ino - 1 >>

InitFs ==
  /\ dev \in [Dirs -> Devs]
  /\ dev[<<>>] = 1
  /\ DevsInOrder
  /\ MountedOnce
  /\ fs \in [Slots -> Entries]
  /\ InosInOrder
  /\ fs0 = fs
  /\ mutations = 0

\* The state at the call of operation o on directory t.
InitCall(o, t) ==
  /\ op = o
  /\ pc = StartPc(o)
  /\ target_dir = t
  /\ xdev \in BOOLEAN
  /\ root_dev = dev[t]
  /\ stack = << t >>
  /\ listed = {}
  /\ inode_to_paths = <<>>
  /\ inode_stat = <<>>
  /\ inodes = {}
  /\ hits = <<>>
  /\ fs_root = <<>>
  /\ cur = t
  /\ symlinks = <<>>
  /\ total_size = 0
  /\ q = << << t, 0 >> >>
  /\ size_map = <<>>
  /\ seen_inodes = {}
  /\ counted = {}
  /\ selected = <<>>
  /\ ans = <<>>
  /\ todo = <<>>
  /\ attempted = <<>>
  /\ removed_paths = 0
  /\ freed_bytes = 0
  /\ total_paths = 0
  /\ total_inodes = 0
  /\ result = <<>>
  /\ current_dir = t
  /\ current_idx = 0
  /\ selected_items = {}
  /\ selected_file_inodes = <<>>
  /\ dir_cache = <<>>
  /\ last_key = ""
  /\ keys = 0
  /\ lost = {}
  /\ before_mark = <<>>

\* No file_disk_usage call of its own, no snapshot file.
NoStat == [st_size |-> 0]
InitFn == st_arg = NoStat /\ usage = 0
NoFile == [present |-> FALSE]
NoLoad == [ok |-> FALSE]
InitSnap == file = NoFile /\ loaded = NoLoad

Init ==
  /\ InitFs
  /\ \E o \in Ops : InitCall(o, TargetDir)
  /\ IF op = "dir_size"
     THEN /\ dry_run = FALSE /\ yes = FALSE
          /\ depth \in 0..MaxDepth /\ apparent \in BOOLEAN
     ELSE /\ dry_run \in BOOLEAN /\ yes \in BOOLEAN
          /\ depth = 1 /\ apparent = FALSE
  /\ InitFn /\ InitSnap

Next ==
  \/ ScanStepA
  \/ ReportA
  \/ CollectStep
  \/ CollectDone
  \/ DetectStep
  \/ DetectReturn
  \/ FindStep
  \/ ReportPurge
  \/ SymStep
  \/ ReportSym
  \/ DirSizeStep
  \/ DirSizeReturn
  \/ TuiConfirm
  \/ TuiQuit
  \/ ReportMain
  \/ Prompt
  \/ UnlinkStep
  \/ Return

Spec == Init /\ [][Next]_vars

\* ------------------------------------- a filesystem other processes change
\* Another process hardlinks an existing file under a free name of the same
\* filesystem, or removes a name, while the operation runs.
ExtLink ==
  /\ mutations < MaxMut /\ pc # "done"
  /\ \E p \in Slots, n \in Slots :
       /\ fs[p].kind = "reg" /\ fs[n].kind = "none"
       /\ dev[Dirname(p)] = dev[Dirname(n)]
       /\ fs' = [fs EXCEPT ![n] = fs[p]]
  /\ mutations' = mutations + 1
  /\ UNCHANGED << dev, fs0, lost, argv, pc, walkv, scanv, rootv, symv, sizev,
                  selected, unlv, totv, result,
                  fnv, snapv, tuiv >>

ExtUnlink ==
  /\ mutations < MaxMut /\ pc # "done"
  /\ \E p \in Slots :
       /\ fs[p].kind # "none"
       /\ fs' = [fs EXCEPT ![p] = NoEnt]
  /\ mutations' = mutations + 1
  /\ UNCHANGED << dev, fs0, lost, argv, pc, walkv, scanv, rootv, symv, sizev,
                  selected, unlv, totv, result,
                  fnv, snapv, tuiv >>

\* delete_variant_a(target_dir, yes=True, dry_run=False) beside such a process
InitRace ==
  /\ InitFs
  /\ InitCall("variant_a", TargetDir)
  /\ dry_run = FALSE /\ yes = TRUE
  /\ depth = 1 /\ apparent = FALSE
  /\ InitFn /\ InitSnap

NextRace ==
  \/ ScanStepA
  \/ ReportA
  \/ UnlinkStep
  \/ Return
  \/ ExtLink
  \/ ExtUnlink

SpecRace == InitRace /\ [][NextRace]_vars

\* ------------------------------------------- detect_fs_root(path) by itself
\* Any directory as path, any devices; the program runs on until it returns.
InitRoot ==
  /\ dev \in [Dirs -> Devs]
  /\ fs = [p \in Slots |-> NoEnt]
  /\ fs0 = fs
  /\ mutations = 0
  /\ \E t \in Dirs : InitCall("detect_fs_root", t)
  /\ dry_run = FALSE /\ yes = FALSE
  /\ depth = 1 /\ apparent = FALSE
  /\ InitFn /\ InitSnap

NextRoot ==
  \/ DetectStep
  \/ DetectReturn

SpecRoot == InitRoot /\ [][NextRoot]_vars /\ WF_vars(NextRoot)

\* ---------------------------------- the browser: tui_main (636-975)
\* calculate_dir_size(dirpath, seen_inodes): the total, and seen_inodes as
\* the call leaves it (the set is shared with the caller).
RECURSIVE calculate_dir_size(_, _)
RECURSIVE CalcEntries(_, _)
CalcEntries(entries, acc) ==
  IF entries = <<>> THEN acc
  ELSE LET p == Head(entries)
           st == Lstat(fs, p)
           key == << st.st_dev, st.st_ino >>
           sub == calculate_dir_size(p, acc.seen)
           next ==
             IF xdev /\ st.st_dev # root_dev THEN acc
             ELSE IF st.st_mode = "lnk"
             THEN [acc EXCEPT !.total = @ + file_disk_usage(st)]
             ELSE IF st.st_mode = "dir"
             THEN [total |-> acc.total + sub.total, seen |-> sub.seen]
             ELSE IF key \notin acc.seen
             THEN [total |-> acc.total + file_disk_usage(st),
                   seen |-> acc.seen \cup {key}]
             ELSE acc
       IN CalcEntries(Tail(entries), next)
calculate_dir_size(dirpath, seen) ==
  CalcEntries(ScanEntries(dirpath),
              [total |-> file_disk_usage(Lstat(fs, dirpath)), seen |-> seen])

\* seen_inodes = set() once for a listing (644); every calculate_dir_size
\* call of the listing gets that same set (667).
SeenForNext(seen) == seen

\* items.sort(key=lambda x: x[2], reverse=True): stable, largest first.
RECURSIVE InsertItem(_, _)
InsertItem(sorted, it) ==
  IF sorted = <<>> THEN << it >>
  ELSE IF Head(sorted).size >= it.size
  THEN << Head(sorted) >> \o InsertItem(Tail(sorted), it)
  ELSE << it >> \o sorted
RECURSIVE SortItems(_, _)
SortItems(items, sorted) ==
  IF items = <<>> THEN sorted
  ELSE SortItems(Tail(items), InsertItem(sorted, Head(items)))

\* The items of scan_directory in the order of the listing: (name, is_dir,
\* size, inode_key), the name kept as the full path; key <<>> is None.
RECURSIVE ScanItems(_, _)
ScanItems(entries, acc) ==
  IF entries = <<>> THEN acc.items
  ELSE LET p == Head(entries)
           st == Lstat(fs, p)
           sub == calculate_dir_size(p, SeenForNext(acc.seen))
           next ==
             IF xdev /\ st.st_dev # root_dev THEN acc
             ELSE IF st.st_mode = "lnk"
             THEN [acc EXCEPT !.items = Append(@,
                     [path |-> p, is_dir |-> FALSE,
                      size |-> file_disk_usage(st), key |-> <<>>])]
             ELSE IF st.st_mode = "dir"
             THEN [items |-> Append(acc.items,
                     [path |-> p, is_dir |-> TRUE, size |-> sub.total,
                      key |-> <<>>]),
                   seen |-> sub.seen]
             ELSE [acc EXCEPT !.items = Append(@,
                     [path |-> p, is_dir |-> FALSE,
                      size |-> file_disk_usage(st),
                      key |-> << st.st_dev, st.st_ino >>])]
       IN ScanItems(Tail(entries), next)
scan_directory(dirpath) ==
  SortItems(ScanItems(ScanEntries(dirpath), [items |-> <<>>, seen |-> {}]),
            <<>>)

\* collect_files_from_directory(dirpath, root_dev): dict path -> inode key of
\* the regular files os.walk comes across, a directory of another device
\* pruned under xdev.
RECURSIVE WalkCollect(_, _)
WalkCollect(todo_dirs, files) ==
  IF todo_dirs = <<>> THEN files
  ELSE LET curdir == Head(todo_dirs)
           names == WalkFiles(curdir)
           regs == LET Reg(p) == fs[p].kind = "reg" IN SelectSeq(names, Reg)
           RECURSIVE PutAll(_, _)
           PutAll(ps, d) ==
             IF ps = <<>> THEN d
             ELSE PutAll(Tail(ps), DictPut(d, Head(ps), KeyOf(fs, Head(ps))))
       IN IF xdev /\ dev[curdir] # root_dev
          THEN WalkCollect(Tail(todo_dirs), files)
          ELSE WalkCollect(WalkDirs(curdir) \o Tail(todo_dirs),
                           PutAll(regs, files))
collect_files_from_directory(dirpath) == WalkCollect(<< dirpath >>, <<>>)

\* dict.update(other)
RECURSIVE DictUpdate(_, _)
DictUpdate(d, other) ==
  IF other = <<>> THEN d
  ELSE DictUpdate(DictPut(d, Head(other)[1], Head(other)[2]), Tail(other))
\* del d[k]
DictDel(d, k) == LET Keep(item) == item[1] # k IN SelectSeq(d, Keep)
\* for p in [p for p in d if p.startswith(full_path + os.sep)]: del d[p]
DictDelBelow(d, full_path) ==
  LET Keep(item) == ~(item[1] # full_path /\ IsUnder(item[1], full_path))
  IN SelectSeq(d, Keep)

\* The top of the loop (774-780): the listing of current_dir, scanned at the
\* first visit and cached.
CurItems ==
  IF current_dir \in DictKeys(dir_cache)
  THEN DictGet(dir_cache, current_dir)
  ELSE scan_directory(current_dir)
LoadDir ==
  dir_cache' = IF current_dir \in DictKeys(dir_cache) THEN dir_cache
               ELSE DictPut(dir_cache, current_dir, scan_directory(current_dir))
\* key = stdscr.getch()
Getch(k) ==
  /\ pc = "tui"
  /\ keys < MaxKeys
  /\ keys' = keys + 1
  /\ LoadDir
  /\ last_key' = k

\* "q": return None; interactive_purge_mode returns (set(), {}, {}) and main
\* returns 0 (978-990, 1148-1150).
KeyQuit ==
  /\ Getch("q")
  /\ pc' = "done"
  /\ result' = <<0>>
  /\ UNCHANGED << envv, argv, walkv, scanv, rootv, symv, sizev, selected,
                  unlv, totv, fnv, snapv, current_dir, current_idx,
                  selected_items, selected_file_inodes, before_mark >>

\* KeyboardInterrupt while the browser waits (980-982): the same.
Interrupt ==
  /\ pc = "tui"
  /\ last_key' = "interrupt"
  /\ pc' = "done"
  /\ result' = <<0>>
  /\ UNCHANGED << envv, argv, walkv, scanv, rootv, symv, sizev, selected,
                  unlv, totv, fnv, snapv, current_dir, current_idx,
                  selected_items, selected_file_inodes, dir_cache, keys,
                  before_mark >>

\* (faulty variant: "d" returns whatever is selected, also nothing)
ConfirmReturns_Always(sel) == TRUE

\* if selected_file_inodes: return selected_file_inodes
ConfirmReturns(sel) == sel # <<>>

\* "d": with files selected the browser returns them; the inodes are
\* collected and the search from fs_root begins (992-1015).  With nothing
\* selected the key does nothing.
KeyConfirm ==
  /\ Getch("d")
  /\ IF ConfirmReturns(selected_file_inodes)
     THEN /\ selected' = selected_file_inodes
          /\ inodes' = {selected_file_inodes[i][2] :
                          i \in DOMAIN selected_file_inodes}
          /\ inode_stat' = SelectedStat(selected_file_inodes, <<>>)
          /\ pc' = "findall"
          /\ root_dev' = dev[fs_root]
          /\ stack' = << fs_root >>
     ELSE UNCHANGED << selected, inodes, inode_stat, pc, root_dev, stack >>
  /\ UNCHANGED << envv, argv, listed, inode_to_paths, hits, rootv, symv,
                  sizev, unlv, totv, result, fnv, snapv, current_dir,
                  current_idx, selected_items, selected_file_inodes,
                  before_mark >>

\* SPACE (888-925): mark or unmark the item under the cursor, then move the
\* cursor down.
KeySpace ==
  /\ Getch(" ")
  /\ IF 0 <= current_idx /\ current_idx < Len(CurItems)
     THEN LET it == CurItems[current_idx + 1]
              full_path == it.path
          IN /\ IF full_path \in selected_items
                THEN /\ selected_items' = selected_items \ {full_path}
                     /\ selected_file_inodes' =
                          IF it.is_dir
                          THEN DictDelBelow(selected_file_inodes, full_path)
                          ELSE DictDel(selected_file_inodes, full_path)
                     /\ before_mark' = <<>>
                ELSE /\ selected_items' = selected_items \cup {full_path}
                     /\ selected_file_inodes' =
                          IF it.is_dir
                          THEN DictUpdate(selected_file_inodes,
                                          collect_files_from_directory(full_path))
                          ELSE IF it.key # <<>>
                          THEN DictPut(selected_file_inodes, full_path, it.key)
                          ELSE selected_file_inodes
                     /\ before_mark' = IF it.is_dir
                                       THEN << full_path, selected_file_inodes >>
                                       ELSE <<>>
             /\ current_idx' = IF current_idx < Len(CurItems) - 1
                               THEN current_idx + 1 ELSE current_idx
     ELSE UNCHANGED << selected_items, selected_file_inodes, before_mark,
                       current_idx >>
  /\ UNCHANGED << envv, argv, pc, walkv, scanv, rootv, symv, sizev, selected,
                  unlv, totv, result, fnv, snapv, current_dir >>

\* The keys that only move the cursor (927-933, 965-975); visible_height is
\* the height of the terminal less 5.
KeyMove ==
  /\ Getch("move")
  /\ \E k \in {"up", "down", "pgup", "pgdn", "home", "end"} :
       /\ \E visible_height \in 0..MaxVisible :
            LET Min(a, b) == IF a < b THEN a ELSE b
                Max(a, b) == IF a > b THEN a ELSE b
            IN current_idx' =
                 CASE k = "up" -> IF current_idx > 0 THEN current_idx - 1
                                  ELSE current_idx
                   [] k = "down" -> IF current_idx < Len(CurItems) - 1
                                    THEN current_idx + 1 ELSE current_idx
                   [] k = "pgup" -> Max(0, current_idx - visible_height)
                   [] k = "pgdn" ->
                        Min(Len(CurItems) - 1, current_idx + visible_height)
                   [] k = "home" -> 0
                   [] OTHER -> IF CurItems # <<>> THEN Len(CurItems) - 1 ELSE 0
  /\ UNCHANGED << envv, argv, pc, walkv, scanv, rootv, symv, sizev, selected,
                  unlv, totv, result, fnv, snapv, current_dir,
                  selected_items, selected_file_inodes, before_mark >>

\* Enter (935-950): into the directory under the cursor.
KeyEnter ==
  /\ Getch("enter")
  /\ IF /\ 0 <= current_idx /\ current_idx < Len(CurItems)
        /\ CurItems[current_idx + 1].is_dir
     THEN /\ current_dir' = CurItems[current_idx + 1].path
          /\ current_idx' = 0
     ELSE UNCHANGED << current_dir, current_idx >>
  /\ UNCHANGED << envv, argv, pc, walkv, scanv, rootv, symv, sizev, selected,
                  unlv, totv, result, fnv, snapv, selected_items,
                  selected_file_inodes, before_mark >>

\* Backspace (952-963): to the parent directory, unless at "/".
KeyBack ==
  /\ Getch("back")
  /\ LET parent == Dirname(current_dir)
     IN IF parent # current_dir
        THEN current_dir' = parent /\ current_idx' = 0
        ELSE UNCHANGED << current_dir, current_idx >>
  /\ UNCHANGED << envv, argv, pc, walkv, scanv, rootv, symv, sizev, selected,
                  unlv, totv, result, fnv, snapv, selected_items,
                  selected_file_inodes, before_mark >>

\* The browser opened on target_dir by main (1148, 609-634), on the trees
\* that have no /d/b, target_dir on the device of "/" and /d/m/s on the
\* device of /d/m.
InitTui ==
  /\ InitFs
  /\ fs[<< "d", "b" >>] = NoEnt
  /\ dev[TargetDir] = 1
  /\ dev[<< "d", "m", "s" >>] = dev[<< "d", "m" >>]
  /\ InitCall("interactive", TargetDir)
  /\ dry_run = FALSE /\ yes = FALSE
  /\ depth = 1 /\ apparent = FALSE
  /\ InitFn /\ InitSnap

NextTui ==
  \/ DetectStep
  \/ DetectReturn
  \/ KeyQuit
  \/ Interrupt
  \/ KeyConfirm
  \/ KeySpace
  \/ KeyMove
  \/ KeyEnter
  \/ KeyBack

SpecTui == InitTui /\ [][NextTui]_vars

\* ------------------------------ the scans beside vanishing entries
\* A path fails (FileNotFoundError, PermissionError) when it is a lost
\* directory or lies below one.
Fails(p) == \E d \in lost : IsUnder(p, d)

\* The paths that vanish or become unreadable between the listing of curdir
\* and the caller's use of what was listed: any few of the entries listed
\* and curdir itself.
LateSets(curdir) ==
  {L \in SUBSET (Range(ScanEntries(curdir)) \cup {curdir}) :
     Cardinality(L) + mutations <= MaxMut}
Late(L) ==
  /\ fs' = [p \in Slots |-> IF p \in L THEN NoEnt ELSE fs[p]]
  /\ lost' = lost \cup (L \cap Dirs)
  /\ mutations' = mutations + Cardinality(L)
  /\ UNCHANGED << dev, fs0 >>
\* The entries whose stat succeeds: except FileNotFoundError: continue,
\* except PermissionError: continue.
StatOk(entries, curdir, L) ==
  LET Ok(p) == p \notin L /\ curdir \notin L /\ ~Fails(p)
  IN SelectSeq(entries, Ok)
\* curdir_dev = os.stat(curdir).st_dev, except Exception: root_dev
CurdirDev(curdir, statfails) == IF statfails THEN root_dev ELSE dev[curdir]

\* os.walk cannot list the directory it comes to (scandir raises, onerror
\* is None): the directory is passed over and nothing is yielded.
WalkSkip ==
  /\ pc \in {"scan_a", "collect", "findall", "scan_sym"}
  /\ stack # <<>> /\ Fails(Head(stack))
  /\ stack' = Tail(stack)
  /\ UNCHANGED << envv, argv, pc, root_dev, listed, scanv, rootv, symv,
                  sizev, selected, unlv, totv, result, fnv, snapv, tuiv >>

\* find_deletable_inodes_variant_a, one directory (147-171)
ScanStepALate ==
  /\ pc = "scan_a" /\ stack # <<>> /\ ~Fails(Head(stack))
  /\ Yield
  /\ LET curdir == Head(stack) IN
     \E L \in LateSets(curdir), statfails \in BOOLEAN :
       /\ statfails => curdir \in L
       /\ Late(L)
       /\ LET r == ScanFilesA(StatOk(WalkFiles(curdir), curdir, L),
                              inode_to_paths, inode_stat)
          IN IF xdev /\ CurdirDev(curdir, statfails) # root_dev
             THEN /\ stack' = WalkOn(TRUE)
                  /\ UNCHANGED << inode_to_paths, inode_stat >>
             ELSE /\ stack' = WalkOn(FALSE)
                  /\ inode_to_paths' = r[1]
                  /\ inode_stat' = r[2]
  /\ UNCHANGED << argv, pc, root_dev, inodes, hits, rootv, symv, sizev,
                  selected, unlv, totv, result, fnv, snapv, tuiv >>

\* collect_target_inodes, one directory (294-316)
CollectStepLate ==
  /\ pc = "collect" /\ stack # <<>> /\ ~Fails(Head(stack))
  /\ Yield
  /\ LET curdir == Head(stack) IN
     \E L \in LateSets(curdir), statfails \in BOOLEAN :
       /\ statfails => curdir \in L
       /\ Late(L)
       /\ LET r == CollectFiles(StatOk(WalkFiles(curdir), curdir, L),
                                inodes, inode_stat)
          IN IF xdev /\ CurdirDev(curdir, statfails) # root_dev
             THEN /\ stack' = WalkOn(TRUE)
                  /\ UNCHANGED << inodes, inode_stat >>
             ELSE /\ stack' = WalkOn(FALSE)
                  /\ inodes' = r[1]
                  /\ inode_stat' = r[2]
  /\ UNCHANGED << argv, pc, root_dev, inode_to_paths, hits, rootv, symv,
                  sizev, selected, unlv, totv, result, fnv, snapv, tuiv >>

\* find_all_paths_for_inodes, one directory (335-368): scandir(curdir) is
\* inside try, a directory that fails is passed over.
FindStepLate ==
  /\ pc = "findall" /\ stack # <<>> /\ ~Fails(Head(stack))
  /\ Yield
  /\ LET curdir == Head(stack) IN
     \E L \in LateSets(curdir), statfails \in BOOLEAN :
       /\ statfails => curdir \in L
       /\ Late(L)
       /\ IF xdev /\ CurdirDev(curdir, statfails) # root_dev
          THEN stack' = WalkOn(TRUE) /\ hits' = hits
          ELSE /\ stack' = WalkOn(FALSE)
               /\ hits' = IF curdir \in L THEN hits
                          ELSE FindEntries(
                                 StatOk(ScanEntries(curdir), curdir, L), hits)
  /\ UNCHANGED << argv, pc, root_dev, inode_to_paths, inode_stat, inodes,
                  rootv, symv, sizev, selected, unlv, totv, result, fnv,
                  snapv, tuiv >>

\* remove_symlinks, one directory (470-491): with os.scandir(curdir) stands
\* in no try, a directory that fails there raises out of remove_symlinks
\* and out of main.
SymStepLate ==
  /\ pc = "scan_sym" /\ stack # <<>> /\ ~Fails(Head(stack))
  /\ Yield
  /\ LET curdir == Head(stack) IN
     \E L \in LateSets(curdir), statfails \in BOOLEAN :
       /\ statfails => curdir \in L
       /\ Late(L)
       /\ LET r == SymEntries(StatOk(ScanEntries(curdir), curdir, L),
                              symlinks, total_size)
          IN IF xdev /\ CurdirDev(curdir, statfails) # root_dev
             THEN stack' = WalkOn(TRUE) /\ UNCHANGED << symv, pc >>
             ELSE IF curdir \in L
             THEN pc' = "raised" /\ UNCHANGED << symv, stack >>
             ELSE /\ stack' = WalkOn(FALSE)
                  /\ symlinks' = r[1]
                  /\ total_size' = r[2]
                  /\ pc' = pc
  /\ UNCHANGED << argv, root_dev, scanv, rootv, sizev, selected, unlv, totv,
                  result, fnv, snapv, tuiv >>

\* dir_size, one directory of the queue (74-124): scandir(current) is
\* inside try, a directory that fails is passed over.
DirSizeStepLate ==
  /\ pc = "dir_size" /\ q # <<>>
  /\ LET current == Head(q)[1]
         d == Head(q)[2]
     IN IF Fails(current)
        THEN /\ q' = Tail(q)
             /\ UNCHANGED << envv, listed, size_map, seen_inodes, counted >>
        ELSE \E L \in LateSets(current) :
               /\ Late(L)
               /\ LET r == SizeEntries(
                             StatOk(ScanEntries(current), current, L),
                             current, d,
                             [sm |-> size_map, seen |-> seen_inodes,
                              q |-> Tail(q), cnt |-> counted])
                  IN IF current \in L
                     THEN /\ q' = Tail(q)
                          /\ UNCHANGED << listed, size_map, seen_inodes,
                                          counted >>
                     ELSE /\ listed' = listed \cup {current}
                          /\ size_map' = r.sm
                          /\ seen_inodes' = r.seen
                          /\ q' = r.q
                          /\ counted' = r.cnt
  /\ UNCHANGED << argv, pc, root_dev, stack, scanv, rootv, symv, selected,
                  unlv, totv, result, fnv, snapv, tuiv >>

\* The four operations with a scan, as dry runs.
InitLate ==
  /\ InitFs
  /\ \E o \in {"variant_a", "purge", "symlinks", "dir_size"} :
       InitCall(o, TargetDir)
  /\ dry_run = TRUE /\ yes = FALSE
  /\ depth = MaxDepth /\ apparent = FALSE
  /\ InitFn /\ InitSnap

NextLate ==
  \/ WalkSkip
  \/ ScanStepALate
  \/ ReportA
  \/ CollectStepLate
  \/ CollectDone
  \/ DetectStep
  \/ DetectReturn
  \/ FindStepLate
  \/ ReportPurge
  \/ SymStepLate
  \/ ReportSym
  \/ DirSizeStepLate
  \/ DirSizeReturn

SpecLate == InitLate /\ [][NextLate]_vars

\* ------------------------------------- scan snapshots (533-603, 1097-1122)
\* str(n) of a non-negative int, as its characters.
DigitSeq == << "0", "1", "2", "3", "4", "5", "6", "7", "8", "9" >>
RECURSIVE Dec(_)
Dec(n) ==
  IF n < 10 THEN << DigitSeq[n + 1] >>
  ELSE Dec(n \div 10) \o << DigitSeq[(n % 10) + 1] >>

\* (faulty variant: the key written the way JSON writes a pair, as a list)
StrKey_List(k) == << "[" >> \o Dec(k[1]) \o << ",", " " >> \o Dec(k[2]) \o << "]" >>

\* str(k) of a pair of ints: "(dev, ino)"
StrKey(k) == << "(" >> \o Dec(k[1]) \o << ",", " " >> \o Dec(k[2]) \o << ")" >>

\* The five fields save_scan_results writes of a stat result.
SavedStat(st) ==
  [st_size |-> st.st_size,
   st_blocks |-> IF "st_blocks" \in DOMAIN st THEN st.st_blocks ELSE 0,
   st_dev |-> st.st_dev, st_ino |-> st.st_ino, st_nlink |-> st.st_nlink]

\* The document save_scan_results dumps, the set inodes in the order `order`
\* (a set is iterated in no particular order).  json.dump and json.load keep
\* strings, ints, lists and the order of an object's members.
save_scan_results(t, root, order, stats, found) ==
  [present |-> TRUE,
   target_dir |-> t,
   fs_root |-> root,
   inodes |-> order,
   inode_stat |-> [i \in DOMAIN stats |->
                     << StrKey(stats[i][1]), SavedStat(stats[i][2]) >>],
   hits |-> [i \in DOMAIN found |-> << StrKey(found[i][1]), found[i][2] >>]]

\* A Python value: an int, a tuple or a list of ints.
PyInt(n) == [t |-> "int", v |-> << n >>]
PyTuple(ns) == [t |-> "tuple", v |-> ns]
PyList(ns) == [t |-> "list", v |-> ns]

RECURSIVE SplitFrom(_, _, _)
SplitFrom(s, c, part) ==
  IF s = <<>> THEN << part >>
  ELSE IF Head(s) = c THEN << part >> \o SplitFrom(Tail(s), c, <<>>)
  ELSE SplitFrom(Tail(s), c, Append(part, Head(s)))
Split(s, c) == SplitFrom(s, c, <<>>)

\* An int literal and its value.
IsIntLiteral(s) ==
  /\ s # <<>>
  /\ \A i \in DOMAIN s : s[i] \in Range(DigitSeq)
  /\ Len(s) = 1 \/ s[1] # "0"
DigitValue(c) == (CHOOSE i \in DOMAIN DigitSeq : DigitSeq[i] = c) - 1
RECURSIVE IntValue(_)
IntValue(s) ==
  IF s = <<>> THEN 0
  ELSE 10 * IntValue(SubSeq(s, 1, Len(s) - 1)) + DigitValue(s[Len(s)])

\* eval of an arithmetic expression: a sum of int literals.
IsSum(s) ==
  \A i \in DOMAIN Split(s, "+") : IsIntLiteral(Strip(Split(s, "+")[i]))
SumValue(s) ==
  SumSeq([i \in DOMAIN Split(s, "+") |-> IntValue(Strip(Split(s, "+")[i]))])

\* eval(text): the value of the expression, for the expressions made of int
\* literals, +, a parenthesised tuple and a bracketed list; any other text
\* (a name that is not defined, a syntax error) raises.
Eval(text) ==
  LET s == Strip(text)
      inner == SubSeq(s, 2, Len(s) - 1)
      parts == Split(inner, ",")
      Items == [i \in DOMAIN parts |-> SumValue(parts[i])]
      ItemsOk == \A i \in DOMAIN parts : IsSum(parts[i])
  IN IF s = <<>> THEN [ok |-> FALSE]
     ELSE IF s[1] = "(" /\ s[Len(s)] = ")"
     THEN IF ~ItemsOk THEN [ok |-> FALSE]
          ELSE IF Len(parts) = 1 THEN [ok |-> TRUE, val |-> PyInt(Items[1])]
          ELSE [ok |-> TRUE, val |-> PyTuple(Items)]
     ELSE IF s[1] = "[" /\ s[Len(s)] = "]"
     THEN IF ~ItemsOk THEN [ok |-> FALSE]
          ELSE [ok |-> TRUE, val |-> PyList(Items)]
     ELSE IF IsSum(s) THEN [ok |-> TRUE, val |-> PyInt(SumValue(s))]
     ELSE [ok |-> FALSE]

\* k = eval(k_str) used as a dict key: a list is not hashable (TypeError).
LoadKey(text) ==
  LET r == Eval(text)
  IN IF r.ok /\ r.val.t # "list" THEN r ELSE [ok |-> FALSE]

\* class StatProxy: the five fields read from the record.
StatProxy(v) ==
  [st_size |-> v.st_size, st_blocks |-> v.st_blocks, st_dev |-> v.st_dev,
   st_ino |-> v.st_ino, st_nlink |-> v.st_nlink]

\* for k_str, v in data[...].items(): d[eval(k_str)] = v, over the members of
\* a JSON object in order; raises when a key does.
RECURSIVE LoadDict(_, _)
LoadDict(members, acc) ==
  IF members = <<>> THEN acc
  ELSE LET k == LoadKey(Head(members)[1])
       IN IF ~acc.ok \/ ~k.ok THEN [ok |-> FALSE]
          ELSE LoadDict(Tail(members),
                        [ok |-> TRUE,
                         d |-> DictPut(acc.d, k.val, Head(members)[2])])

\* load_scan_results(filename): the returned tuple, or that it raised.
load_scan_results(doc) ==
  LET stats == LoadDict(doc.inode_stat, [ok |-> TRUE, d |-> <<>>])
      found == LoadDict(doc.hits, [ok |-> TRUE, d |-> <<>>])
  IN IF ~doc.present \/ ~stats.ok \/ ~found.ok THEN [ok |-> FALSE]
     ELSE [ok |-> TRUE,
           target_dir |-> doc.target_dir,
           fs_root |-> doc.fs_root,
           inodes |-> {PyTuple(doc.inodes[i]) : i \in DOMAIN doc.inodes},
           inode_stat |-> [i \in DOMAIN stats.d |->
                             << stats.d[i][1], StatProxy(stats.d[i][2]) >>],
           hits |-> found.d]

\* The scan results handed to save_scan_results: keys with one or more
\* digits, one stat result for each, and paths for each.
SnapKeys == { <<1, 2>>, <<1, 10>>, <<26, 305>> }
SnapKeySeq == << <<1, 2>>, <<1, 10>>, <<26, 305>> >>
SnapStat(k, n, b) ==
  [st_mode |-> "reg", st_dev |-> k[1], st_ino |-> k[2], st_nlink |-> n,
   st_blocks |-> b, st_size |-> 4000]
SnapPaths == { << <<"d", "a">> >>, << <<"d", "b">>, <<"o", "x">> >> }
\* the ways a set of keys may be iterated
Orders(S) ==
  {sq \in [1..Cardinality(S) -> S] : \A k \in S : \E i \in DOMAIN sq : sq[i] = k}

\* What a snapshot file may hold as the key of a record: the encoding of a
\* pair, and texts that are none.
KeyTexts ==
  { StrKey(<<1, 2>>),
    << "7" >>,
    << "1", "+", "1" >>,
    << "(", "1", ",", " ", "1", "+", "1", ")" >>,
    << "(", "1", ",", " ", "2", ",", " ", "3", ")" >>,
    << "[", "1", ",", " ", "2", "]" >>,
    << "x" >> }
Docs ==
  { [present |-> TRUE, target_dir |-> TargetDir, fs_root |-> <<>>,
     inodes |-> << <<1, 2>> >>,
     inode_stat |-> << << k1, SavedStat(SnapStat(<<1, 2>>, 2, 8)) >> >>,
     hits |-> << << k2, ps >> >>] : k1 \in KeyTexts, k2 \in KeyTexts, ps \in SnapPaths }

InitSnapshot ==
  /\ dev = [d \in Dirs |-> 1]
  /\ fs = [p \in Slots |-> IF p = <<"d", "m", "c">> THEN NoEnt ELSE RegFile(1)]
  /\ fs0 = fs
  /\ mutations = 0
  /\ \E o \in {"save_scan", "load_scan"} : InitCall(o, TargetDir)
  /\ xdev = FALSE
  /\ depth = 1 /\ apparent = FALSE
  /\ InitFn
  /\ loaded = NoLoad
  /\ IF op = "save_scan"
     THEN /\ dry_run = TRUE /\ yes = FALSE
          /\ file = NoFile
     ELSE /\ dry_run \in BOOLEAN /\ yes \in BOOLEAN
          /\ file \in Docs

\* The scan of a --save-scan run has ended: its results.
ScanResults ==
  /\ pc = "scanned"
  /\ \E S \in SUBSET SnapKeys, n \in 1..2, b \in {0, 8} :
       /\ S # {}
       /\ inodes' = S
       /\ LET ks == LET In(k) == k \in S IN SelectSeq(SnapKeySeq, In)
          IN /\ inode_stat' = [i \in DOMAIN ks |-> << ks[i], SnapStat(ks[i], n, b) >>]
             /\ \E f \in [S -> SnapPaths] :
                  hits' = [i \in DOMAIN ks |-> << ks[i], f[ks[i]] >>]
  /\ \E r \in {<<>>, TargetDir} : fs_root' = r
  /\ pc' = "save"
  /\ UNCHANGED << envv, argv, walkv, inode_to_paths, cur, symv, sizev,
                  selected, unlv, totv, result, fnv, snapv, tuiv >>

\* save_scan_results(root, fs_root, inodes, inode_stat, hits, args.save_scan)
SaveScan ==
  /\ pc = "save"
  /\ \E order \in Orders(inodes) :
       file' = save_scan_results(target_dir, fs_root, order, inode_stat, hits)
  /\ pc' = "load"
  /\ UNCHANGED << envv, argv, walkv, scanv, rootv, symv, sizev, selected,
                  unlv, totv, result, fnv, loaded, tuiv >>

\* main with --load-scan (1097-1122): load the snapshot, return 2 if that
\* raises; otherwise neither the elif nor the else branch of the mode is
\* taken and main returns 0 (1263).
LoadMain ==
  /\ pc = "load"
  /\ loaded' = load_scan_results(file)
  /\ pc' = "done"
  /\ result' = IF loaded'.ok THEN <<0>> ELSE <<2>>
  /\ UNCHANGED << envv, argv, walkv, scanv, rootv, symv, sizev, selected,
                  unlv, totv, fnv, file, tuiv >>

NextSnapshot ==
  \/ ScanResults
  \/ SaveScan
  \/ LoadMain

SpecSnapshot == InitSnapshot /\ [][NextSnapshot]_vars

\* ------------------------------------------- file_disk_usage(st) by itself
\* Metadata with and without a block count.
UsageArgs ==
  {[st_size |-> n] : n \in 0..MaxSize}
    \cup {[st_size |-> n, st_blocks |-> b] : n \in 0..MaxSize, b \in 0..MaxBlocks}

InitUsage ==
  /\ dev = [d \in Dirs |-> 1]
  /\ fs = [p \in Slots |-> NoEnt]
  /\ fs0 = fs
  /\ mutations = 0
  /\ InitCall("file_disk_usage", TargetDir)
  /\ xdev = FALSE /\ dry_run = FALSE /\ yes = FALSE
  /\ depth = 1 /\ apparent = FALSE
  /\ st_arg \in UsageArgs
  /\ usage = 0
  /\ InitSnap

UsageCall ==
  /\ pc = "usage"
  /\ usage' = file_disk_usage(st_arg)
  /\ pc' = "done"
  /\ UNCHANGED << envv, argv, walkv, scanv, rootv, symv, sizev, selected,
                  unlv, totv, result, st_arg, snapv, tuiv >>

NextUsage == UsageCall

SpecUsage == InitUsage /\ [][NextUsage]_vars

\* ------------------------------------------------------------- properties
\* What the properties speak of, stated on the filesystem itself.
RegPaths(f) == {p \in Slots : f[p].kind = "reg"}
InodesOf(f) == {KeyOf(f, p) : p \in RegPaths(f)}
\* p lies inside the target directory
InTarget(p) == p # target_dir /\ IsUnder(p, target_dir)
\* directory d is the target or below it and, under xdev, no directory from
\* the target down to d is on another device than the target
Reached(d) ==
  /\ IsUnder(d, target_dir)
  /\ xdev => \A x \in Dirs :
               IsUnder(d, x) /\ IsUnder(x, target_dir) => dev[x] = dev[target_dir]
\* the paths to an inode that a scan of the target directory comes across
FoundIn(key) == {p \in PathsOf(fs0, key) : Reached(Dirname(p))}
\* the answers that read y or yes once trimmed and lower-cased
IsYes(a) == a \in { <<"y">>, <<" ", "Y", "E", "S", " ">> }
Go == ~dry_run /\ (yes \/ IsYes(ans))
Tried == {attempted[i][1] : i \in DOMAIN attempted}
Succeeded == {attempted[i][1] : i \in {j \in DOMAIN attempted : attempted[j][2]}}
NoFailure == \A i \in DOMAIN attempted : attempted[i][2]
Changed == {p \in Slots : fs[p] # fs0[p]}
\* the usage of an inode, from the metadata of one of its paths
UsageOf(key) ==
  file_disk_usage(Lstat(fs0, CHOOSE p \in PathsOf(fs0, key) : TRUE))
RECURSIVE UsageSum(_)
UsageSum(S) ==
  IF S = {} THEN 0
  ELSE LET k == CHOOSE x \in S : TRUE IN UsageOf(k) + UsageSum(S \ {k})

\* C1: on a filesystem nobody else changes, complete-object deletion selects
\* an inode exactly when its link count equals the number of paths to it the
\* scan found inside the target directory; an inode with a path inside and a
\* path outside the target directory is never selected.
C1_Selection ==
  (op = "variant_a" /\ pc \in {"prompt", "unlink", "done"}) =>
    \A key \in InodesOf(fs0) :
      /\ key \in DictKeys(hits)
           <=> Cardinality(PathsOf(fs0, key)) = Cardinality(FoundIn(key))
      /\ (\E p \in PathsOf(fs0, key) : ~InTarget(p)) => key \notin DictKeys(hits)

\* C1, its case: one inode with two paths inside is selected, another with a
\* path inside and a path outside is not.
C1_Witness ==
  /\ op = "variant_a" /\ pc = "done"
  /\ \E k1, k2 \in InodesOf(fs0) :
       /\ k1 \in DictKeys(hits) /\ Cardinality(PathsOf(fs0, k1)) = 2
       /\ k2 \notin DictKeys(hits)
       /\ \E p, o \in PathsOf(fs0, k2) : InTarget(p) /\ ~InTarget(o)

\* C2 as stated: after delete_variant_a with dry_run=False, confirmation and
\* no unlink failure, every inode all of whose paths lie inside the target
\* directory has lost all its paths, and only paths of selected inodes are
\* gone.
C2_Orig ==
  (op = "variant_a" /\ pc = "done" /\ Go /\ NoFailure) =>
    /\ \A key \in InodesOf(fs0) :
         (\A p \in PathsOf(fs0, key) : InTarget(p)) => PathsOf(fs, key) = {}
    /\ \A p \in Changed :
         fs0[p].kind = "reg" /\ KeyOf(fs0, p) \in DictKeys(hits)

\* C2, amended: the same for every inode all of whose paths lie inside the
\* target directory in directories the scan reaches (under xdev a directory
\* on another device, and what is below it, is not reached).
C2_Deletes ==
  (op = "variant_a" /\ pc = "done" /\ Go /\ NoFailure) =>
    /\ \A key \in InodesOf(fs0) :
         (\A p \in PathsOf(fs0, key) : InTarget(p) /\ Reached(Dirname(p)))
           => PathsOf(fs, key) = {} /\ PathsOf(fs0, key) \subseteq Succeeded
    /\ \A p \in Changed :
         fs0[p].kind = "reg" /\ KeyOf(fs0, p) \in DictKeys(hits)

\* C2, its case: an inode with two paths, both inside, is gone; another
\* inode, linked outside too, still has all its paths.
C2_Witness ==
  /\ op = "variant_a" /\ pc = "done" /\ Go /\ NoFailure
  /\ \E k1, k2 \in InodesOf(fs0) :
       /\ Cardinality(PathsOf(fs0, k1)) = 2
       /\ \A p \in PathsOf(fs0, k1) : InTarget(p)
       /\ PathsOf(fs, k1) = {}
       /\ \E o \in PathsOf(fs0, k2) : ~InTarget(o)
       /\ PathsOf(fs, k2) = PathsOf(fs0, k2)

\* C3: global purge attempts, once each, exactly the paths under the
\* filesystem root that reference an inode of a regular file found under the
\* target directory; every attempt that does not fail removes its path, and no
\* other path changes.
C3_Purge ==
  (op = "purge" /\ pc = "done" /\ Go) =>
    LET found == {KeyOf(fs0, p) :
                    p \in {x \in RegPaths(fs0) :
                             InTarget(x) /\ Reached(Dirname(x))}}
        expect == {p \in RegPaths(fs0) :
                     KeyOf(fs0, p) \in found /\ IsUnder(p, fs_root)}
    IN /\ Tried = expect
       /\ Len(attempted) = Cardinality(expect)
       /\ Changed = Succeeded
       /\ \A p \in Succeeded : fs[p] = NoEnt
       /\ NoFailure => \A key \in found : PathsOf(fs, key) = {}

\* C3, its case: an inode found under the target has a path outside it too,
\* and both are gone, while a file of another inode is still there.
C3_Witness ==
  /\ op = "purge" /\ pc = "done" /\ Go
  /\ \E p, o \in RegPaths(fs0) :
       /\ InTarget(p) /\ ~InTarget(o) /\ KeyOf(fs0, p) = KeyOf(fs0, o)
       /\ fs[p] = NoEnt /\ fs[o] = NoEnt
  /\ \E r \in RegPaths(fs0) : fs[r] = fs0[r]

\* C4: in delete_variant_a and purge_hardlink_groups_globally the freed-byte
\* estimate is the sum of file_disk_usage over the distinct candidate inodes,
\* each once whatever the number of its paths, and that is what is returned.
C4_Freed ==
  (op \in {"variant_a", "purge"} /\ pc \in {"prompt", "unlink", "done"}) =>
    /\ Len(hits) = Cardinality(DictKeys(hits))
    /\ freed_bytes = UsageSum(DictKeys(hits))
    /\ (pc = "done" /\ result # <<0, 0, 0>>) =>
         /\ result[1] = Cardinality(DictKeys(hits))
         /\ result[3] = UsageSum(DictKeys(hits))

\* C4, its case: a and b are one inode with link count 2, c is another with
\* link count 1; 2 inodes, 3 paths removed, usage(ab) + usage(c).
C4_Witness ==
  /\ op = "variant_a" /\ pc = "done"
  /\ fs0[<<"d", "a">>] = RegFile(1) /\ fs0[<<"d", "b">>] = RegFile(1)
  /\ fs0[<<"d", "m", "c">>] = RegFile(2) /\ dev[<<"d", "m">>] = dev[<<"d">>]
  /\ fs0[<<"o", "x">>] = NoEnt
  /\ result = << 2, 3, UsageOf(<< dev[<<"d">>], 1 >>)
                         + UsageOf(<< dev[<<"d">>], 2 >>) >>

\* C5: with dry_run set no operation unlinks anything: every path and every
\* link count is what it was.
C5_DryRun ==
  dry_run => fs = fs0 /\ attempted = <<>> /\ removed_paths = 0

\* C5, its case: the selection-driven purge of main has found paths to
\* delete and ended without deleting.
C5_Witness ==
  dry_run /\ op = "interactive" /\ pc = "done" /\ hits # <<>>

\* C6: without dry_run and yes nothing is unlinked unless the answer, trimmed
\* and lower-cased, is y or yes; after any other answer the filesystem is
\* unchanged and zeros are returned.
C6_Confirm ==
  (~dry_run /\ ~yes /\ op # "dir_size") =>
    /\ (Changed # {} \/ attempted # <<>>) => IsYes(ans)
    /\ (pc = "done" /\ ~IsYes(ans)) =>
         /\ fs = fs0
         /\ result = CASE op = "symlinks" -> <<0, 0>>
                       [] op = "interactive" -> <<0>>
                       [] OTHER -> <<0, 0, 0>>

\* C6, its case: the purge had paths to delete and the operator typed "ye".
C6_Witness ==
  /\ ~dry_run /\ ~yes /\ op = "purge" /\ pc = "done"
  /\ hits # <<>> /\ ans = <<"y", "e">>

\* C7: a failed unlink does not end the batch: every candidate path is
\* attempted, in order, and the count of removed paths is the number of
\* unlink calls that succeeded.
C7_Batch ==
  (op # "dir_size" /\ pc = "done" /\ Go) =>
    LET cands == IF op = "symlinks" THEN symlinks
                 ELSE Flatten([i \in DOMAIN hits |-> hits[i][2]])
        ok == {i \in DOMAIN attempted : attempted[i][2]}
    IN /\ [i \in DOMAIN attempted |-> attempted[i][1]] = cands
       /\ removed_paths = Cardinality(ok)
       /\ Changed = Succeeded
       /\ (op \in {"variant_a", "purge"} /\ cands # <<>>)
            => result[2] = Cardinality(ok)
       /\ (op = "symlinks" /\ cands # <<>>) => result[1] = Cardinality(ok)

\* C7, its case: an unlink failed and a later one succeeded.
C7_Witness ==
  /\ pc = "done"
  /\ \E i, j \in DOMAIN attempted :
       i < j /\ ~attempted[i][2] /\ attempted[j][2]

\* One path is unlinked by the operation in this step.
Unlinks == pc = "unlink" /\ removed_paths' = removed_paths + 1
\* The inode the path about to be unlinked references has no path outside
\* the target directory.
LastLinksInside ==
  LET p == Head(todo)
  IN fs[p].kind = "reg" => \A o \in PathsOf(fs, KeyOf(fs, p)) : InTarget(o)

\* C8 as stated: whenever delete_variant_a unlinks a path of a selected
\* inode, that inode has no hardlink outside the target directory at that
\* moment, also when another process creates or removes hardlinks meanwhile.
C8_Orig == [][Unlinks => LastLinksInside]_vars

\* C8, amended: that holds when no other process has created or removed a
\* hardlink since the scan began; the scan's result is not validated again
\* before the unlink.
C8_Stale == [][(Unlinks /\ mutations = 0) => LastLinksInside]_vars

\* C8, its case: delete_variant_a has unlinked a path and nothing else has
\* touched the filesystem.
C8_Witness ==
  op = "variant_a" /\ removed_paths > 0 /\ mutations = 0 /\ pc = "unlink"

\* the device of a path: a directory's own, a file's directory's
DevOf(p) == IF p \in Dirs THEN dev[p] ELSE dev[Dirname(p)]
\* the paths a walk has reported or counted so far
Reported ==
  UNION {Range(inode_to_paths[i][2]) : i \in DOMAIN inode_to_paths}
    \cup UNION {Range(hits[i][2]) : i \in DOMAIN hits}
    \cup Range(symlinks) \cup counted

\* Under xdev no walk reports or counts a path of another device than its
\* root's, and none reads a directory below a directory of another device.
XdevReported ==
  xdev =>
    /\ \A p \in Reported : DevOf(p) = root_dev
    /\ \A d \in listed : d = <<>> \/ dev[Dirname(d)] = root_dev \/ d = target_dir

\* C9 as stated: under xdev no walk reports or counts a path of another
\* device than its root's, and no directory of another device is descended
\* into (has its entries listed).
C9_Orig ==
  xdev =>
    /\ \A p \in Reported : DevOf(p) = root_dev
    /\ \A d \in listed : dev[d] = root_dev

\* detect_fs_root has returned an ancestor-or-self of path; every directory
\* from path up to it is on path's device; its parent is on another device
\* or is itself; for "/" it is "/".
RootOk ==
  /\ IsUnder(target_dir, result)
  /\ \A x \in Dirs :
       IsUnder(target_dir, x) /\ IsUnder(x, result) => dev[x] = dev[target_dir]
  /\ dev[Dirname(result)] # dev[target_dir] \/ Dirname(result) = result
  /\ target_dir = <<>> => result = <<>>

\* C10: detect_fs_root(path) returns, for every path, and what it returns is
\* the highest ancestor-or-self reached through directories of path's
\* device.
C10_Root == [](pc = "done" => RootOk) /\ <>(pc = "done")

\* C10, its case: from /d/m/s up two levels to /d, whose parent / is on
\* another device.
C10_Witness ==
  /\ op = "detect_fs_root" /\ pc = "done"
  /\ target_dir = <<"d", "m", "s">> /\ result = <<"d">>

\* C20 as stated: file_disk_usage returns max(block_count, 0) * 512 whenever
\* the metadata has a block count, 0 for a block count of 0, and the nominal
\* size only when there is no block count.
C20_Orig ==
  (op = "file_disk_usage" /\ pc = "done") =>
    usage = IF "st_blocks" \in DOMAIN st_arg
            THEN (IF st_arg.st_blocks > 0 THEN st_arg.st_blocks ELSE 0) * 512
            ELSE st_arg.st_size

\* What file_disk_usage does return: block_count * 512 for a positive block
\* count; the nominal size when there is no block count and also when the
\* block count is 0.
C20_Usage ==
  (op = "file_disk_usage" /\ pc = "done") =>
    /\ "st_blocks" \notin DOMAIN st_arg => usage = st_arg.st_size
    /\ "st_blocks" \in DOMAIN st_arg =>
         /\ st_arg.st_blocks >= 1 => usage = 512 * st_arg.st_blocks
         /\ st_arg.st_blocks = 0 => usage = st_arg.st_size

\* C20, its case: a block count of 0 and a nominal size of 5: 5 is returned.
C20_Witness ==
  /\ op = "file_disk_usage" /\ pc = "done"
  /\ "st_blocks" \in DOMAIN st_arg
  /\ st_arg.st_blocks = 0 /\ st_arg.st_size = 5 /\ usage = 5

\* dir_size: the directories it scans (root is at depth 0), the entries of a
\* directory it does not skip, and sums over entries.
DepthOf(d) == Len(d) - Len(target_dir)
Scanned == {d \in Dirs : Reached(d) /\ DepthOf(d) <= depth}
SeenEntries(d) ==
  LET Own(e) == ~(xdev /\ DevOf(e) # root_dev) IN SelectSeq(ScanEntries(d), Own)
DirectSum(entries) ==
  SumSeq([i \in DOMAIN entries |-> SizeOf(Lstat(fs, entries[i]))])
Aggregate(d) == IF d \in DictKeys(size_map) THEN DictGet(size_map, d) ELSE 0
AggregateTotal == SumSeq([i \in DOMAIN size_map |-> size_map[i][2]])
\* every entry counted, a regular file only at the first path to its inode
OnceSum(entries) ==
  LET Reg(i) == Lstat(fs, entries[i]).st_mode = "reg"
      Fresh(i) ==
        Reg(i) => \A j \in 1..(i - 1) :
                    Reg(j) => KeyOf(fs, entries[j]) # KeyOf(fs, entries[i])
  IN SumSeq([i \in DOMAIN entries |->
               IF Fresh(i) THEN SizeOf(Lstat(fs, entries[i])) ELSE 0])
\* d holds only subdirectories and regular files with one link
Plain(d) ==
  \A i \in DOMAIN ScanEntries(d) :
    LET st == Lstat(fs, ScanEntries(d)[i])
    IN st.st_mode = "dir" \/ (st.st_mode = "reg" /\ st.st_nlink = 1)
ScannedSeq == LET In(d) == d \in Scanned IN SelectSeq(DirSeq, In)

\* C14 as stated: in one dir_size traversal every regular-file inode adds to
\* the aggregates once in total, and a directory of only unique regular
\* files and subdirectories has as aggregate the sum of each file and each
\* subdirectory entry.
C14_Orig ==
  (op = "dir_size" /\ pc = "done") =>
    /\ AggregateTotal
         = OnceSum(Flatten([i \in DOMAIN ScannedSeq |-> SeenEntries(ScannedSeq[i])]))
    /\ \A d \in Scanned : Plain(d) => Aggregate(d) = DirectSum(ScanEntries(d))

\* C14, amended: the same, the subdirectory entries counted being those
\* dir_size does not skip (under xdev an entry of another device is skipped).
C14_Once ==
  (op = "dir_size" /\ pc = "done") =>
    /\ AggregateTotal
         = OnceSum(Flatten([i \in DOMAIN ScannedSeq |-> SeenEntries(ScannedSeq[i])]))
    /\ \A d \in Scanned : Plain(d) => Aggregate(d) = DirectSum(SeenEntries(d))

\* C14, its case: one inode with two paths in one directory and a third in
\* its subdirectory, all three visited.
C14_Witness ==
  /\ op = "dir_size" /\ pc = "done" /\ depth >= 1
  /\ fs[<<"d", "a">>] = RegFile(1) /\ fs[<<"d", "b">>] = RegFile(1)
  /\ fs[<<"d", "m", "c">>] = RegFile(1) /\ dev[<<"d", "m">>] = dev[<<"d">>]
  /\ <<"d", "m">> \in listed
  /\ Cardinality(seen_inodes) = 1

\* C15 as stated: dir_size returns one entry for every directory from root
\* down to depth levels, and what lies deeper is contained in the aggregates:
\* together they hold everything below root.
C15_Orig ==
  (op = "dir_size" /\ pc = "done") =>
    LET below == {d \in Dirs : Reached(d)}
        belowSeq == LET In(d) == d \in below IN SelectSeq(DirSeq, In)
    IN /\ DictKeys(size_map) = Scanned
       /\ AggregateTotal
            = OnceSum(Flatten([i \in DOMAIN belowSeq |-> SeenEntries(belowSeq[i])]))

\* C11: save_scan_results followed by load_scan_results gives back the
\* target directory and filesystem root, the set of inode keys, for every key
\* size, block count, device, inode number and link count, and for every key
\* its list of paths, each key again a pair of integers.
C11_RoundTrip ==
  (op = "save_scan" /\ pc = "done") =>
    /\ loaded.ok
    /\ loaded.target_dir = target_dir /\ loaded.fs_root = fs_root
    /\ loaded.inodes = {PyTuple(k) : k \in inodes}
    /\ DOMAIN loaded.inode_stat = DOMAIN inode_stat
    /\ \A i \in DOMAIN inode_stat :
         LET k == inode_stat[i][1]
             st == inode_stat[i][2]
             got == loaded.inode_stat[i]
         IN /\ got[1] = PyTuple(k)
            /\ got[2].st_size = st.st_size /\ got[2].st_blocks = st.st_blocks
            /\ got[2].st_dev = st.st_dev /\ got[2].st_ino = st.st_ino
            /\ got[2].st_nlink = st.st_nlink
    /\ DOMAIN loaded.hits = DOMAIN hits
    /\ \A i \in DOMAIN hits :
         loaded.hits[i] = << PyTuple(hits[i][1]), hits[i][2] >>

\* C11, its case: three keys, one of them (26, 305), saved and loaded.
C11_Witness ==
  /\ op = "save_scan" /\ pc = "done" /\ loaded.ok
  /\ Cardinality(inodes) = 3
  /\ \E i \in DOMAIN loaded.hits :
       /\ loaded.hits[i][1] = PyTuple(<<26, 305>>)
       /\ Len(loaded.hits[i][2]) = 2

\* the text is what str writes for a pair of ints
IsPairText(text) ==
  LET r == Eval(text)
  IN r.ok /\ r.val.t = "tuple" /\ Len(r.val.v) = 2 /\ StrKey(r.val.v) = text
IsPair(k) == k.t = "tuple" /\ Len(k.v) = 2

\* C12 as stated: load_scan_results rejects the snapshot or leaves the record
\* out when the key of an inode_stat or hits record is not the encoding of a
\* pair of integers, and every key of the mappings it returns is a pair of
\* integers.
C12_Orig ==
  (op = "load_scan" /\ pc = "done" /\ loaded.ok) =>
    /\ \A i \in DOMAIN file.inode_stat :
         ~IsPairText(file.inode_stat[i][1]) => loaded.inode_stat = <<>>
    /\ \A i \in DOMAIN file.hits :
         ~IsPairText(file.hits[i][1]) => loaded.hits = <<>>
    /\ \A k \in DictKeys(loaded.inode_stat) \cup DictKeys(loaded.hits) : IsPair(k)

\* C13 as stated: main with --load-scan, a well-formed snapshot loaded,
\* without --dry-run and with --yes, goes on to report and unlink the paths of
\* the snapshot.
C13_Orig ==
  (/\ op = "load_scan" /\ pc = "done" /\ loaded.ok /\ ~dry_run /\ yes
   /\ \A i \in DOMAIN file.inode_stat : IsPairText(file.inode_stat[i][1])
   /\ \A i \in DOMAIN file.hits : IsPairText(file.hits[i][1])) =>
    /\ Tried = UNION {Range(loaded.hits[i][2]) : i \in DOMAIN loaded.hits}
    /\ total_paths = SumSeq([i \in DOMAIN loaded.hits |-> Len(loaded.hits[i][2])])

\* --------------------------------------------------------------- browser
\* C18 (as stated): while the browser is open the cursor is an index of the
\* listing shown, 0 <= current_idx <= max(0, len(items) - 1), also when
\* the listing is empty.
C18_Orig ==
  pc = "tui" =>
    /\ 0 <= current_idx
    /\ current_idx <= (IF Len(CurItems) > 1 THEN Len(CurItems) - 1 ELSE 0)

\* What the browser reaches below directory top: no directory of another
\* device on the way under xdev.
Browsed(p, top) ==
  /\ p # top /\ IsUnder(p, top)
  /\ p \in Slots => fs[p].kind # "none"
  /\ \A x \in Dirs :
       (x # top /\ IsUnder(x, top) /\ IsUnder(p, x) /\ (p \in Slots => x # p))
         => ~(xdev /\ dev[x] # root_dev)
\* The usage of the subtree of top alone, every inode under it counted once:
\* the directory itself, the directories and symlinks below it, and for
\* every inode the first of its paths.
SubtreeUsage(top) ==
  LET Dir(x) == Browsed(x, top)
      Lnk(p) == Browsed(p, top) /\ fs[p].kind = "lnk"
      First(i) ==
        LET p == SlotSeq[i]
        IN /\ Browsed(p, top) /\ fs[p].kind = "reg"
           /\ ~\E j \in 1..(i - 1) :
                /\ Browsed(SlotSeq[j], top) /\ fs[SlotSeq[j]].kind = "reg"
                /\ KeyOf(fs, SlotSeq[j]) = KeyOf(fs, p)
      Use(p) == file_disk_usage(Lstat(fs, p))
      dirs == SelectSeq(DirSeq, Dir)
      lnks == SelectSeq(SlotSeq, Lnk)
  IN Use(top)
     + SumSeq([i \in DOMAIN dirs |-> Use(dirs[i])])
     + SumSeq([i \in DOMAIN lnks |-> Use(lnks[i])])
     + SumSeq([i \in DOMAIN SlotSeq |->
                 IF First(i) THEN Use(SlotSeq[i]) ELSE 0])

\* C19 (as stated): in every listing scan_directory produced, the size of a
\* subdirectory is the usage of its own subtree with the inodes counted once
\* within that subtree, whatever its siblings hold.
C19_Orig ==
  \A i \in DOMAIN dir_cache :
    LET listing == dir_cache[i][2]
    IN \A j \in DOMAIN listing :
         listing[j].is_dir => listing[j].size = SubtreeUsage(listing[j].path)

\* The sizes of the subdirectories are subtree-local wherever no inode lies
\* under two subdirectories of one listing.
C19_Local ==
  \A i \in DOMAIN dir_cache :
    LET listing == dir_cache[i][2]
        Shared(a, b) ==
          \E p, r \in Slots :
            /\ Browsed(p, a) /\ Browsed(r, b)
            /\ fs[p].kind = "reg" /\ fs[r].kind = "reg"
            /\ KeyOf(fs, p) = KeyOf(fs, r)
    IN \A j \in DOMAIN listing :
         (/\ listing[j].is_dir
          /\ \A k \in DOMAIN listing :
               (k # j /\ listing[k].is_dir)
                 => ~Shared(listing[j].path, listing[k].path))
           => listing[j].size = SubtreeUsage(listing[j].path)

\* The step in which getch returns key k, and the step that ends the browser
\* without a selection: "q", or an interrupt.
Pressed(k) == pc = "tui" /\ keys' = keys + 1 /\ last_key' = k
Aborted == Pressed("q") \/ (pc = "tui" /\ last_key' = "interrupt")
\* After an abort main returns 0 and has unlinked nothing.
AbortEnds ==
  Aborted =>
    /\ pc' = "done" /\ result' = <<0>>
    /\ selected' = <<>>
    /\ fs' = fs0 /\ attempted' = <<>>

\* C17 (as stated): "d" ends the browser and returns the SelectionSet as it
\* is, whatever it holds; "q" or an interrupt ends it with an empty
\* selection, main unlinks nothing and returns 0.
C17_Orig ==
  [][/\ Pressed("d") =>
          pc' # "tui" /\ selected' = selected_file_inodes
     /\ AbortEnds]_vars

\* C17 (amended): "d" ends the browser and returns the SelectionSet when
\* that is not empty, and is ignored (the browser stays open, nothing
\* changes) when it is empty; "q" or an interrupt ends it with an empty
\* selection, main unlinks nothing and returns 0.
C17_Terminal ==
  [][/\ Pressed("d") =>
          IF selected_file_inodes # <<>>
          THEN pc' = "findall" /\ selected' = selected_file_inodes
          ELSE /\ pc' = "tui" /\ selected' = <<>>
               /\ UNCHANGED << current_dir, current_idx, selected_items,
                               selected_file_inodes, envv >>
     /\ AbortEnds]_vars

\* C17 witness: "d" has returned a selection of two files.
C17_Witness ==
  /\ pc = "findall" /\ last_key = "d"
  /\ Len(selected) = 2 /\ selected = selected_file_inodes

\* The step that unmarks directory d, and the step that unmarks the
\* directory marked by the toggle before (before_mark is what the selection
\* was at that mark).
Unmarks(d) == pc = "tui" /\ d \in selected_items /\ d \notin selected_items'
UnmarksAtOnce ==
  /\ before_mark # <<>>
  /\ Unmarks(before_mark[1])
  /\ Len(collect_files_from_directory(before_mark[1])) >= 2

C22_Orig ==
  \A p \in Slots :
    fs[p].kind = "reg" =>
      (p \in selected_items <=> p \in DictKeys(selected_file_inodes))

\* C22, the other direction of its failure: a regular file shown as marked
\* that is no key of selected_file_inodes.
C22_Witness ==
  /\ pc = "tui"
  /\ \E p \in Slots :
       /\ fs[p].kind = "reg"
       /\ p \in selected_items
       /\ p \notin DictKeys(selected_file_inodes)

\* Every key of selected_file_inodes is marked itself or lies under a
\* marked directory.
C22_Covered ==
  \A i \in DOMAIN selected_file_inodes :
    \E m \in selected_items : IsUnder(selected_file_inodes[i][1], m)

\* C23 (as stated): the directory shown is target_dir or lies under it, and
\* so does every path of the selection the browser returns.
C23_Orig ==
  /\ IsUnder(current_dir, target_dir)
  /\ \A i \in DOMAIN selected : IsUnder(selected[i][1], target_dir)

\* C23, its consequence: the browser has returned a selection with a path
\* outside target_dir.
C23_Witness ==
  /\ pc = "findall" /\ last_key = "d"
  /\ \E i \in DOMAIN selected : ~IsUnder(selected[i][1], target_dir)

\* ------------------------------------------------------ transient errors
\* C21 (as stated): no entry or directory that vanishes or becomes
\* unreadable between its listing and its use ends a scan: no exception
\* leaves the operation.
C21_Orig == pc # "raised"

\* Only the symlink scan is ended by such an error; the variant-A scan, the
\* collection, the path search and dir_size run to their end.
C21_Others == op # "symlinks" => pc # "raised"

============================================================================
